---------------------------- MODULE Spec2Model ----------------------------
(***************************************************************************)
(* State machine of src/simulator.py: class UE and FiveGSimulator          *)
(* (__init__, run, save_results).                                          *)
(*                                                                         *)
(* Numbers.  The program computes in IEEE doubles (numpy float64).  The    *)
(* model carries every value as an exact rational n/d, or as one of the    *)
(* IEEE special values the program can produce, NaN and +/-Inf: numpy      *)
(* scalar division by zero yields nan or inf with a warning, it does not   *)
(* raise.  Rounding of finite results is not modelled.  A value whose      *)
(* numerator or denominator would exceed MaxMagnitude is "ovf"; a run is   *)
(* not explored past a step that would store such a value.                 *)
(*                                                                         *)
(* Units.  Bandwidth is in Hz, capacity in bit/s.  Throughput and          *)
(* avg_throughput are carried in units of 1e-6 Mbps, so that the initial   *)
(* 1e-6 (line 26) is 1 and the 1e-9 of line 95 is 1/1000.                  *)
(*                                                                         *)
(* Channel.  path_loss_db, the Rayleigh draw and the dB conversions of     *)
(* lines 77-84 are transcendental; the model draws the outcome of the      *)
(* fading sample from FadingDraws and tabulates snr_db and snr_lin for it. *)
(***************************************************************************)
EXTENDS Integers, Sequences, FiniteSets, TLC

\* ------------------------------------------------------------------ bounds
MaxUEs == 2
MaxSteps == 2
MaxMagnitude == 1000000000

\* Values of total_bw_hz tried: negative, zero, and a positive one.
TotalBwChoices == {-1, 0, 2}
\* randint(50, 500) draws each distance from 50..499.  Placements tried:
\* neighbouring terminals at the two extremes, either one first.
Placements(n) ==
  { [i \in 1..n |-> IF i % 2 = first THEN 50 ELSE 499] : first \in {0, 1} }
\* self.scheduler is any string; "foo" stands for every unrecognized one.
Schedulers == {"equal", "pf", "foo"}
\* Outcomes of the fading draw, by the resulting log2(1 + snr_lin).
FadingDraws == {0, 1, 2}

\* ----------------------------------------------------------------- numbers
Abs(x) == IF x < 0 THEN -x ELSE x

Sign(x) == IF x < 0 THEN -1 ELSE IF x = 0 THEN 0 ELSE 1

Max(a, b) == IF a >= b THEN a ELSE b

Min(a, b) == IF a <= b THEN a ELSE b

RECURSIVE Gcd(_, _)
Gcd(a, b) == IF b = 0 THEN a ELSE Gcd(b, a % b)

NaN == [k |-> "nan", n |-> 0, d |-> 1]

Inf(s) == [k |-> "inf", n |-> s, d |-> 1]

Ovf == [k |-> "ovf", n |-> 0, d |-> 1]

\* The rational n/d (d # 0) in lowest terms with a positive denominator.
Rat(n, d) ==
  LET g == Gcd(Abs(n), Abs(d))
      s == IF d < 0 THEN -1 ELSE 1
  IN  [k |-> "num", n |-> s * (n \div g), d |-> Abs(d) \div g]

Num(i) == Rat(i, 1)

IsNum(x) == x.k = "num"

IsNaN(x) == x.k = "nan"

IsOvf(x) == x.k = "ovf"

IsZero(x) == x.k = "num" /\ x.n = 0

\* Whether a * b stays within MaxMagnitude (decided without computing it).
ProdFits(a, b) == a = 0 \/ b = 0 \/ Abs(a) <= MaxMagnitude \div Abs(b)

Mul(x, y) ==
  IF IsOvf(x) \/ IsOvf(y) THEN Ovf
  ELSE IF IsNaN(x) \/ IsNaN(y) THEN NaN
  ELSE IF x.k = "inf" \/ y.k = "inf"
       THEN IF IsZero(x) \/ IsZero(y) THEN NaN ELSE Inf(Sign(x.n) * Sign(y.n))
  ELSE LET g1 == Gcd(Abs(x.n), y.d)
           g2 == Gcd(Abs(y.n), x.d)
           a == x.n \div g1
           c == y.n \div g2
           b == x.d \div g2
           e == y.d \div g1
       IN  IF ProdFits(a, c) /\ ProdFits(b, e) THEN Rat(a * c, b * e) ELSE Ovf

\* numpy float64 division: x/0 is nan for x = 0 and +/-inf otherwise.
Div(x, y) ==
  IF IsOvf(x) \/ IsOvf(y) THEN Ovf
  ELSE IF IsNaN(x) \/ IsNaN(y) THEN NaN
  ELSE IF y.k = "inf" THEN (IF x.k = "inf" THEN NaN ELSE Num(0))
  ELSE IF IsZero(y) THEN (IF IsZero(x) THEN NaN ELSE Inf(Sign(x.n)))
  ELSE IF x.k = "inf" THEN Inf(Sign(x.n) * Sign(y.n))
  ELSE Mul(x, Rat(y.d, y.n))

Add(x, y) ==
  IF IsOvf(x) \/ IsOvf(y) THEN Ovf
  ELSE IF IsNaN(x) \/ IsNaN(y) THEN NaN
  ELSE IF x.k = "inf" /\ y.k = "inf" THEN (IF x.n = y.n THEN x ELSE NaN)
  ELSE IF x.k = "inf" THEN x
  ELSE IF y.k = "inf" THEN y
  ELSE LET g == Gcd(x.d, y.d)
           p == y.d \div g
           q == x.d \div g
       IN  IF ProdFits(x.n, p) /\ ProdFits(y.n, q) /\ ProdFits(q, y.d)
              /\ Abs(x.n * p + y.n * q) <= MaxMagnitude
           THEN Rat(x.n * p + y.n * q, q * y.d)
           ELSE Ovf

Neg(x) == IF x.k \in {"num", "inf"} THEN [x EXCEPT !.n = -x.n] ELSE x

\* a/b < c/d for b, d > 0, by integer parts and then the inverted remainders.
RECURSIVE FracLess(_, _, _, _)
FracLess(a, b, c, d) ==
  LET qa == a \div b
      qc == c \div d
      ra == a % b
      rc == c % d
  IN  IF qa # qc THEN qa < qc
      ELSE IF rc = 0 THEN FALSE
      ELSE IF ra = 0 THEN TRUE
      ELSE FracLess(d, rc, b, ra)

\* IEEE comparisons: every comparison with NaN is false.
Lt(x, y) ==
  IF ~(x.k \in {"num", "inf"} /\ y.k \in {"num", "inf"}) THEN FALSE
  ELSE IF x.k = "inf" THEN x.n < 0 /\ ~(y.k = "inf" /\ y.n < 0)
  ELSE IF y.k = "inf" THEN y.n > 0
  ELSE FracLess(x.n, x.d, y.n, y.d)

Eq(x, y) == x.k \in {"num", "inf"} /\ x = y

Le(x, y) == Lt(x, y) \/ Eq(x, y)

RECURSIVE SumSeq(_)
\* Python's sum(): 0 + s[1] + s[2] + ...
SumSeq(s) == IF s = <<>> THEN Num(0) ELSE Add(SumSeq(SubSeq(s, 1, Len(s) - 1)), s[Len(s)])

AnyOvf(s) == \E i \in 1..Len(s) : IsOvf(s[i])

\* ------------------------------------------------------------------- state
VARIABLES
  num_ues,       \* self.num_ues
  total_bw_hz,   \* self.total_bw_hz
  scheduler,     \* self.scheduler
  sim_steps,     \* self.sim_steps
  ues,           \* self.ues: sequence of UE records
  pc,            \* position in run(): "for_t", "link", "alloc", "metrics", "done", "raised"
  t,             \* iterations of `for t in range(self.sim_steps)` completed
  snrs_linear,   \* run()'s local list
  inst_caps,     \* run()'s local list
  weights,       \* run()'s local list (pf branch only)
  bw_alloc,      \* run()'s local list
  j,             \* position of the metrics loop's zip (1-based)
  raised,        \* exception that ended run(), or "none"
  saved,         \* save_results() has been invoked
  summary        \* rows of summary.csv (UE ids), written by save_results()

vars == <<num_ues, total_bw_hz, scheduler, sim_steps, ues, pc, t, snrs_linear,
          inst_caps, weights, bw_alloc, j, raised, saved, summary>>

config == <<num_ues, total_bw_hz, scheduler, sim_steps>>

\* ------------------------------------------------------------ UE.__init__
AvgInitZero == Num(0)

\* self.avg_throughput = 1e-6, in units of 1e-6 Mbps.
AvgInit == Num(1)

UE(ue_id, distance_m) ==
  [id |-> ue_id, distance |-> distance_m, throughput_history |-> <<>>,
   latency_history |-> <<>>, snr_history |-> <<>>, avg_throughput |-> AvgInit]

\* [UE(i, randint(50, 500)) for i in range(num_ues)]: empty for num_ues <= 0.
UEsFor(n) ==
  { [i \in 1..Max(n, 0) |-> UE(i - 1, ds[i])] : ds \in Placements(Max(n, 0)) }

Init ==
  /\ num_ues \in -1..MaxUEs
  /\ total_bw_hz \in TotalBwChoices
  /\ scheduler \in Schedulers
  /\ sim_steps \in -1..MaxSteps
  /\ ues \in UEsFor(num_ues)
  /\ pc = "for_t"
  /\ t = 0
  /\ snrs_linear = <<>>
  /\ inst_caps = <<>>
  /\ weights = <<>>
  /\ bw_alloc = <<>>
  /\ j = 0
  /\ raised = "none"
  /\ saved = FALSE
  /\ summary = <<>>

\* ------------------------------------------------------------- link phase
\* snr_db = rx_power - noise_power_dbm(total_bw_hz) for fading outcome f.
\* np.log10(total_bw_hz) is -inf for 0 (snr_db = +inf) and nan for a negative
\* bandwidth.  Outcome 0 is an snr_db so low that 10**(snr_db/10) is below
\* 2**-53 (or underflows to 0.0); outcomes 1 and 2 are 0 dB and 4.77 dB.
SnrDb(bw_hz, f) ==
  IF bw_hz < 0 THEN NaN
  ELSE IF bw_hz = 0 THEN Inf(1)
  ELSE CASE f = 0 -> Num(-4000)
         [] f = 1 -> Num(0)
         [] OTHER -> Rat(477, 100)

\* snr_lin = 10**(snr_db/10), tabulated for the values above: 10**inf is inf,
\* 10**-400 is 0.0, 10**0 is 1, 10**0.477 is 3.
SnrLin(snr_db) ==
  IF ~IsNum(snr_db) THEN snr_db
  ELSE IF snr_db.n < 0 THEN Num(0)
  ELSE IF snr_db.n = 0 THEN Num(1)
  ELSE Num(3)

RECURSIVE Log2Int(_)
Log2Int(n) == IF n <= 1 THEN 0 ELSE 1 + Log2Int(n \div 2)

\* np.log2(1 + snr_lin); 1 + snr_lin is 1.0 for snr_lin < 2**-53.
Log2OnePlus(snr_lin) ==
  IF IsNum(snr_lin) THEN Num(Log2Int(1 + snr_lin.n)) ELSE snr_lin

\* cap = self.total_bw_hz * np.log2(1 + snr_lin)
ShannonCap(bw, snr_lin) == Mul(bw, Log2OnePlus(snr_lin))

LinkPhaseDoneEarly(caps) == Len(caps) >= 1 \/ Len(ues) = 0

\* `for ue in self.ues` of the link phase is exhausted.
LinkPhaseDone(caps) == Len(caps) = Len(ues)

AppendSampleOnce(hist, x) == IF hist = <<>> THEN <<x>> ELSE hist

\* list.append
AppendSample(hist, x) == Append(hist, x)

\* for t in range(self.sim_steps): one more iteration; the locals are reset.
StepBegin ==
  /\ pc = "for_t"
  /\ t < sim_steps
  /\ snrs_linear' = <<>>
  /\ inst_caps' = <<>>
  /\ pc' = IF LinkPhaseDone(<<>>) THEN "alloc" ELSE "link"
  /\ UNCHANGED <<config, ues, t, weights, bw_alloc, j, raised, saved, summary>>

\* One iteration of `for ue in self.ues` (lines 76-89).
LinkUE ==
  /\ pc = "link"
  /\ \E f \in FadingDraws :
       LET i == Len(inst_caps) + 1
           snr_db == SnrDb(total_bw_hz, f)
           snr_lin == SnrLin(snr_db)
           cap == ShannonCap(Num(total_bw_hz), snr_lin)
       IN  /\ snrs_linear' = Append(snrs_linear, snr_lin)
           /\ inst_caps' = Append(inst_caps, cap)
           /\ ues' = [ues EXCEPT ![i].snr_history = AppendSample(@, snr_db)]
           /\ pc' = IF LinkPhaseDone(inst_caps') THEN "alloc" ELSE "link"
  /\ UNCHANGED <<config, t, weights, bw_alloc, j, raised, saved, summary>>

\* ------------------------------------------------------- allocation phase
\* Length of zip(self.ues, bw_alloc, snrs_linear, inst_caps).
ZipLen(alloc) == Min(Min(Len(ues), Len(alloc)), Min(Len(snrs_linear), Len(inst_caps)))

\* Control after the allocation: the metrics loop, or the next iteration at once.
AfterAlloc(alloc) ==
  IF ZipLen(alloc) = 0
  THEN /\ pc' = "for_t"
       /\ t' = t + 1
       /\ j' = 0
  ELSE /\ pc' = "metrics"
       /\ t' = t
       /\ j' = 1

EqualShareByIndex(bw, n) == [i \in 1..Max(n, 0) |-> Rat(bw * i * 2, n * (n + 1))]

\* [self.total_bw_hz / self.num_ues] * self.num_ues  (num_ues # 0)
EqualShare(bw, n) == [i \in 1..Max(n, 0) |-> Rat(bw, n)]

\* 1e-9 of line 95, in units of 1e-6 Mbps.
WeightEps == Rat(1, 1000)

\* [c / (ue.avg_throughput + 1e-9) for c, ue in zip(inst_caps, self.ues)]
PFWeights(caps, us) ==
  [i \in 1..Min(Len(caps), Len(us)) |-> Div(caps[i], Add(us[i].avg_throughput, WeightEps))]

\* All bandwidth to the first terminal of largest weight.
MaxRateAlloc(ws, bw) ==
  LET best == CHOOSE i \in 1..Len(ws) :
                /\ \A k \in 1..Len(ws) : Le(ws[k], ws[i]) \/ ~IsNum(ws[k])
                /\ \A k \in 1..(i - 1) : ~Eq(ws[k], ws[i])
  IN  [i \in 1..Len(ws) |-> IF i = best THEN bw ELSE Num(0)]

\* total_w = sum(weights); [(w/total_w) * self.total_bw_hz for w in weights]
PFAlloc(ws, bw) ==
  LET total_w == SumSeq(ws)
  IN  [i \in 1..Len(ws) |-> Mul(Div(ws[i], total_w), bw)]

\* scheduler == "equal", num_ues # 0.
AllocEqual ==
  /\ pc = "alloc"
  /\ scheduler = "equal"
  /\ num_ues # 0
  /\ bw_alloc' = EqualShare(total_bw_hz, num_ues)
  /\ AfterAlloc(bw_alloc')
  /\ UNCHANGED <<config, ues, snrs_linear, inst_caps, weights, raised, saved, summary>>

\* scheduler == "equal", num_ues == 0: total_bw_hz / 0 raises.
AllocEqualZeroDiv ==
  /\ pc = "alloc"
  /\ scheduler = "equal"
  /\ num_ues = 0
  /\ raised' = "ZeroDivisionError"
  /\ pc' = "raised"
  /\ UNCHANGED <<config, ues, t, snrs_linear, inst_caps, weights, bw_alloc, j, saved, summary>>

\* scheduler == "pf"
AllocPF ==
  /\ pc = "alloc"
  /\ scheduler = "pf"
  /\ weights' = PFWeights(inst_caps, ues)
  /\ bw_alloc' = PFAlloc(weights', Num(total_bw_hz))
  /\ ~AnyOvf(weights') /\ ~AnyOvf(bw_alloc')
  /\ AfterAlloc(bw_alloc')
  /\ UNCHANGED <<config, ues, snrs_linear, inst_caps, raised, saved, summary>>

\* else: raise ValueError("Scheduler must be 'equal' or 'pf'")
AllocInvalid ==
  /\ pc = "alloc"
  /\ scheduler \notin {"equal", "pf"}
  /\ raised' = "ValueError"
  /\ pc' = "raised"
  /\ UNCHANGED <<config, ues, t, snrs_linear, inst_caps, weights, bw_alloc, j, saved, summary>>

\* ---------------------------------------------------------- metrics phase
\* cap_bps = bw * np.log2(1 + snr_lin)
CapBps(bw, snr_lin) == Mul(bw, Log2OnePlus(snr_lin))

\* throughput_mbps = cap_bps / 1e6, in units of 1e-6 Mbps.
ThroughputMbps(cap_bps) == cap_bps

\* latency_ms = (1e6 / (cap_bps + 1e-9) + distance / 3e8 + 1e-3) * 1000.  The
\* sample is carried as the two operands that determine it.
LatencyMs(cap_bps, distance) == [cap_bps |-> cap_bps, distance |-> distance]

EmaSlow(avg, sample) == Add(Mul(Rat(9, 10), avg), Mul(Rat(1, 10), avg))

\* 0.9 * ue.avg_throughput + 0.1 * throughput_mbps
Ema(avg, sample) == Add(Mul(Rat(9, 10), avg), Mul(Rat(1, 10), sample))

\* One iteration of the metrics loop (lines 102-115).
MetricsUE ==
  /\ pc = "metrics"
  /\ LET cap_bps == CapBps(bw_alloc[j], snrs_linear[j])
         throughput_mbps == ThroughputMbps(cap_bps)
         latency_ms == LatencyMs(cap_bps, ues[j].distance)
         avg == Ema(ues[j].avg_throughput, throughput_mbps)
     IN  /\ ~IsOvf(throughput_mbps) /\ ~IsOvf(avg)
         /\ ues' = [ues EXCEPT ![j].throughput_history = AppendSample(@, throughput_mbps),
                               ![j].latency_history = AppendSample(@, latency_ms),
                               ![j].avg_throughput = avg]
  /\ IF j = ZipLen(bw_alloc)
     THEN /\ pc' = "for_t"
          /\ t' = t + 1
          /\ j' = 0
     ELSE /\ pc' = "metrics"
          /\ t' = t
          /\ j' = j + 1
  /\ UNCHANGED <<config, snrs_linear, inst_caps, weights, bw_alloc, raised, saved, summary>>

\* ------------------------------------------------------------ save_results
\* range(self.sim_steps) is exhausted: self.save_results().
SaveResults ==
  /\ pc = "for_t"
  /\ t >= sim_steps
  /\ saved' = TRUE
  /\ summary' = [i \in 1..Len(ues) |-> ues[i].id]
  /\ pc' = "done"
  /\ UNCHANGED <<config, ues, t, snrs_linear, inst_caps, weights, bw_alloc, j, raised>>

Next ==
  \/ StepBegin
  \/ LinkUE
  \/ AllocEqual
  \/ AllocEqualZeroDiv
  \/ AllocPF
  \/ AllocInvalid
  \/ MetricsUE
  \/ SaveResults

Spec == Init /\ [][Next]_vars

\* ------------------------------------------------------------ properties
AbsR(x) == IF x.k \in {"num", "inf"} /\ x.n < 0 THEN Neg(x) ELSE x

Positive(x) == Lt(Num(0), x)

Last(s) == s[Len(s)]

HistLens(ue) ==
  <<Len(ue.throughput_history), Len(ue.latency_history), Len(ue.snr_history)>>

\* C1: in every step, for scheduler "equal" or "pf" and a terminal count >= 1,
\* bw_alloc has one entry per terminal and its entries sum to total_bw_hz
\* within 1e-6 relative.  (Stated for a positive total_bw_hz, which keeps the
\* rejected configurations of C3 out of it.)
C1_AllocSumsToTotal ==
  (pc = "metrics" /\ scheduler \in {"equal", "pf"} /\ num_ues >= 1 /\ total_bw_hz > 0)
    => /\ Len(bw_alloc) = num_ues
       /\ Le(AbsR(Add(SumSeq(bw_alloc), Neg(Num(total_bw_hz)))),
             Mul(Rat(1, 1000000), Num(total_bw_hz)))

\* C2: when the scheduler selector is unrecognized, at the moment the error is
\* raised every history of every terminal is empty and every avg_throughput
\* is still its initial value.
C2_UnknownSchedulerFailsFast ==
  raised = "ValueError"
    => \A i \in 1..Len(ues) :
         /\ HistLens(ues[i]) = <<0, 0, 0>>
         /\ ues[i].avg_throughput = AvgInit

InvalidConfig == num_ues <= 0 \/ total_bw_hz <= 0 \/ sim_steps <= 0

\* C3: with a non-positive terminal count, bandwidth or step count,
\* save_results is never invoked.
C3_InvalidConfigNeverSaved == InvalidConfig => ~saved

\* C4: at every step boundary, after k completed steps (0 <= k <= sim_steps),
\* the three histories of every terminal have length k; when save_results is
\* called they have length sim_steps.
C4_HistoriesLockStep ==
  /\ pc \in {"for_t", "done"}
       => \A i \in 1..Len(ues) : HistLens(ues[i]) = <<t, t, t>>
  /\ (saved /\ sim_steps >= 0)
       => \A i \in 1..Len(ues) : HistLens(ues[i]) = <<sim_steps, sim_steps, sim_steps>>

C4_Witness ==
  /\ saved
  /\ sim_steps >= 2
  /\ Len(ues) >= 2
  /\ \A i \in 1..Len(ues) : HistLens(ues[i]) = <<sim_steps, sim_steps, sim_steps>>

NonNegSamples(ue) ==
  \A k \in 1..Len(ue.throughput_history) : Le(Num(0), ue.throughput_history[k])

\* C5: avg_throughput of every terminal is strictly positive in every state,
\* given that its throughput samples are non-negative.
C5_AvgPositive ==
  \A i \in 1..Len(ues) : NonNegSamples(ues[i]) => Positive(ues[i].avg_throughput)

C5_Witness ==
  /\ scheduler = "pf"
  /\ \E i \in 1..Len(ues) :
       /\ Len(ues[i].throughput_history) >= 2
       /\ NonNegSamples(ues[i])
       /\ IsZero(ues[i].throughput_history[1])
       /\ Positive(ues[i].avg_throughput)

\* C6: under "pf", for two terminals of identical instantaneous capacity in a
\* step, the one whose avg_throughput at the start of the step is lower is
\* allocated at least as much bandwidth as the other.  (pc = "metrics" with
\* j = 1 is the state right after the allocation, before any update.)
C6_PFFavorsLowerAvg ==
  (pc = "metrics" /\ j = 1 /\ scheduler = "pf" /\ total_bw_hz > 0)
    => \A a, b \in 1..Len(ues) :
         (/\ Eq(inst_caps[a], inst_caps[b])
          /\ Lt(ues[a].avg_throughput, ues[b].avg_throughput))
           => Le(bw_alloc[b], bw_alloc[a])

\* C7: under "equal", in every step every terminal is allocated exactly
\* total_bw_hz / num_ues.
C7_EqualShareExact ==
  (pc = "metrics" /\ scheduler = "equal")
    => /\ Len(bw_alloc) = Len(ues)
       /\ \A i \in 1..Len(ues) : bw_alloc[i] = Rat(total_bw_hz, num_ues)

C7_Witness ==
  /\ pc = "metrics"
  /\ scheduler = "equal"
  /\ total_bw_hz > 0
  /\ Len(ues) = 2
  /\ ues[1].distance # ues[2].distance
  /\ inst_caps[1] # inst_caps[2]
  /\ ues[1].avg_throughput # ues[2].avg_throughput
  /\ bw_alloc[1] = bw_alloc[2]

\* Every instantaneous capacity drawn so far in the run is strictly positive.
AllCapsPositive ==
  \A i \in 1..Len(ues) : \A k \in 1..Len(ues[i].snr_history) :
    Positive(ShannonCap(Num(total_bw_hz), SnrLin(ues[i].snr_history[k])))

\* C8: under "pf", in a run where every instantaneous capacity is strictly
\* positive, every terminal is allocated strictly positive bandwidth and every
\* throughput sample is strictly positive.
C8_NoStarvationPF ==
  (scheduler = "pf" /\ AllCapsPositive)
    => /\ pc = "metrics" => \A i \in 1..Len(bw_alloc) : Positive(bw_alloc[i])
       /\ \A i \in 1..Len(ues) : \A k \in 1..Len(ues[i].throughput_history) :
            Positive(ues[i].throughput_history[k])

C8_Witness ==
  /\ scheduler = "pf"
  /\ AllCapsPositive
  /\ pc = "metrics"
  /\ t = 1
  /\ Len(ues) = 2
  /\ Lt(ues[1].avg_throughput, ues[2].avg_throughput)
  /\ Lt(inst_caps[1], inst_caps[2])
  /\ Positive(bw_alloc[1]) /\ Positive(bw_alloc[2])

\* C9: whenever a throughput sample is appended for a terminal, its
\* avg_throughput becomes 0.9 * old + 0.1 * sample; nothing else changes
\* avg_throughput, and a completed step has appended one sample per terminal.
C9_EmaUpdate ==
  [][/\ \A i \in 1..Len(ues) :
          IF Len(ues'[i].throughput_history) = Len(ues[i].throughput_history) + 1
          THEN ues'[i].avg_throughput =
                 Add(Mul(Rat(9, 10), ues[i].avg_throughput),
                     Mul(Rat(1, 10), Last(ues'[i].throughput_history)))
          ELSE /\ ues'[i].avg_throughput = ues[i].avg_throughput
               /\ ues'[i].throughput_history = ues[i].throughput_history
     /\ t' # t => \A i \in 1..Len(ues) : Len(ues'[i].throughput_history) = t'
    ]_vars

C9_Witness ==
  \E i \in 1..Len(ues) :
    /\ Len(ues[i].throughput_history) = 2
    /\ Positive(ues[i].throughput_history[1])
    /\ Positive(ues[i].throughput_history[2])
    /\ ues[i].throughput_history[1] # ues[i].throughput_history[2]
    /\ ues[i].avg_throughput # AvgInit

Avgs(us) == [i \in 1..Len(us) |-> us[i].avg_throughput]

\* C10: the allocation is computed once per step, in the allocation phase
\* only, after the link computation of every terminal for that step and before
\* any avg_throughput update of that step; the pf weights are computed from
\* the avg_throughput values left by the previous step, which change in the
\* metrics phase only; steps do not overlap.
C10_PhaseOrder ==
  [][/\ (bw_alloc' # bw_alloc \/ weights' # weights) => (pc = "alloc" /\ pc' # "alloc")
     /\ (pc = "alloc" /\ pc' # "raised")
          => /\ \A i \in 1..Len(ues) :
                  /\ Len(ues[i].snr_history) = t + 1
                  /\ Len(ues[i].throughput_history) = t
             /\ Len(inst_caps) = Len(ues)
             /\ pc' \in {"metrics", "for_t"}
             /\ scheduler = "pf"
                  => weights' = [i \in 1..Len(ues) |->
                                   Div(inst_caps[i], Add(ues[i].avg_throughput, WeightEps))]
     /\ pc # "metrics" => Avgs(ues') = Avgs(ues)
     /\ pc' = "alloc" => (pc \in {"for_t", "link"} /\ t' = t)
     /\ pc' = "link" => (pc \in {"for_t", "link"} /\ t' = t)
     /\ t' # t => (t' = t + 1 /\ pc' = "for_t" /\ pc \in {"alloc", "metrics"})
    ]_vars

C10_Witness ==
  /\ pc = "metrics"
  /\ scheduler = "pf"
  /\ t = 1
  /\ j = 2
  /\ Len(ues) = 2
  /\ Len(weights) = 2
  /\ Positive(weights[1]) /\ Positive(weights[2])
  /\ weights[1] # weights[2]
  /\ inst_caps[1] = inst_caps[2]

====
